---- MODULE Spec2Model ----
(***************************************************************************)
(* The review and product request handlers of the marketplace server, as   *)
(* a state machine over the document store.                                *)
(*                                                                         *)
(* State: the two collections (products, reviews), the id allocators, the  *)
(* handlers suspended on an awaited store call (inflight) and the response *)
(* written by the last step (out).  A handler that awaits two store calls  *)
(* takes two steps: the first carries it up to and including its first     *)
(* store read and the synchronous code that follows it, the second is the  *)
(* awaited write together with the response.                               *)
(*                                                                         *)
(* Numbers are kept in tenths (2.5 is 25), strings are sequences of        *)
(* one-character strings, and a JavaScript value is a tagged record.       *)
(***************************************************************************)
EXTENDS Integers, Sequences, FiniteSets, Bags, TLC

VARIABLES products, reviews, nextProductId, nextReviewId, inflight, out

vars == <<products, reviews, nextProductId, nextReviewId, inflight, out>>

store == <<products, reviews, nextProductId, nextReviewId>>

(***************************************************************************)
(* Bounds of the model.                                                    *)
(***************************************************************************)
MaxProducts == 1

MaxReviews == 2

MaxInFlight == 2

(***************************************************************************)
(* Program constants.                                                      *)
(***************************************************************************)
RatingMin == 1

RatingMax == 5

CommentMaxLength == 1000

(***************************************************************************)
(* JavaScript values of a request body.                                    *)
(***************************************************************************)
Undefined == [t |-> "undefined", n |-> 0, s |-> <<>>]

Null == [t |-> "null", n |-> 0, s |-> <<>>]

NaN == [t |-> "nan", n |-> 0, s |-> <<>>]

Num(x) == [t |-> "number", n |-> x, s |-> <<>>]

Str(q) == [t |-> "string", n |-> 0, s |-> q]

Whitespace == {" ", "\t"}

\* !v
Falsy(v) ==
  \/ v.t \in {"undefined", "null", "nan"}
  \/ v.t = "number" /\ v.n = 0
  \/ v.t = "string" /\ v.s = <<>>

RECURSIVE TrimStart(_)
TrimStart(q) ==
  IF q # <<>> /\ Head(q) \in Whitespace THEN TrimStart(Tail(q)) ELSE q

RECURSIVE TrimEnd(_)
TrimEnd(q) ==
  IF q # <<>> /\ q[Len(q)] \in Whitespace
  THEN TrimEnd(SubSeq(q, 1, Len(q) - 1))
  ELSE q

\* String.prototype.trim
trim(q) == TrimEnd(TrimStart(q))

Digits == <<"0", "1", "2", "3", "4", "5", "6", "7", "8", "9">>

IsDigit(c) == \E d \in 1..10 : Digits[d] = c

DigitValue(c) == (CHOOSE d \in 1..10 : Digits[d] = c) - 1

RECURSIVE DigitsValue(_)
DigitsValue(q) ==
  IF q = <<>> THEN 0
  ELSE 10 * DigitsValue(SubSeq(q, 1, Len(q) - 1)) + DigitValue(q[Len(q)])

AllDigits(q) == q # <<>> /\ \A i \in 1..Len(q) : IsDigit(q[i])

\* The numeric value of a string (decimal literals with at most one
\* fractional digit; every other text is NaN).
StringToNumber(q) ==
  LET w == trim(q) IN
  IF w = <<>> THEN Num(0)
  ELSE IF AllDigits(w) THEN Num(10 * DigitsValue(w))
  ELSE IF /\ Len(w) >= 3
          /\ w[Len(w) - 1] = "."
          /\ AllDigits(SubSeq(w, 1, Len(w) - 2))
          /\ IsDigit(w[Len(w)])
       THEN Num(10 * DigitsValue(SubSeq(w, 1, Len(w) - 2)) + DigitValue(w[Len(w)]))
  ELSE NaN

\* Number(v)
Number(v) ==
  CASE v.t = "number" -> v
    [] v.t = "string" -> StringToNumber(v.s)
    [] v.t = "null" -> Num(0)
    [] OTHER -> NaN

\* Number.isFinite(v)
isFinite(v) == v.t = "number"

(***************************************************************************)
(* Identifiers, actors and responses.                                      *)
(***************************************************************************)
\* A path parameter: a well-formed ObjectId string (n names the document
\* it would address) or a string that is no ObjectId.
WellFormed(n) == [valid |-> TRUE, n |-> n]

Malformed == [valid |-> FALSE, n |-> 0]

\* mongoose.isValidObjectId
isValidObjectId(id) == id.valid

Users == {"u1", "u2"}

\* A request without a valid token.
Anonymous == "anonymous"

\* The jwt middleware lets a request through when its token verifies.
isAuthenticated(a) == a \in Users

\* The error-handling middleware answers an error passed to next(err).
InternalError == 500

NoBody == [none |-> TRUE]

NoOut ==
  [op |-> "none", actor |-> Anonymous, id |-> Malformed, body |-> NoBody,
   status |-> 0, msg |-> "none"]

Response(op, a, id, body, status, msg) ==
  [op |-> op, actor |-> a, id |-> id, body |-> body, status |-> status,
   msg |-> msg]

\* The handler answers and ends without touching the store.
Reply(o) ==
  /\ out' = o
  /\ UNCHANGED <<store, inflight>>

\* The handler awaits a store write: it is suspended until Resume.
Await(k, op, a, id, body, doc) ==
  /\ inflight' = inflight (+) SetToBag({[k |-> k, op |-> op, actor |-> a,
                                         id |-> id, body |-> body, doc |-> doc]})
  /\ out' = NoOut
  /\ UNCHANGED store

(***************************************************************************)
(* The Review model: schema paths, setters, validators, unique index.      *)
(***************************************************************************)
\* The trim setter of a String path.
CastString(v) == IF v.t = "string" THEN Str(trim(v.s)) ELSE v

Lower(c) ==
  CASE c = "H" -> "h" [] c = "T" -> "t" [] c = "P" -> "p" [] c = "S" -> "s"
    [] OTHER -> c

\* /^(https?:\/\/)[^\s]+$/i
UrlPattern(q) ==
  /\ Len(q) >= 4
  /\ <<Lower(q[1]), Lower(q[2]), Lower(q[3]), Lower(q[4])>> = <<"h", "t", "t", "p">>
  /\ LET r == SubSeq(q, 5, Len(q))
         u == IF r # <<>> /\ Lower(r[1]) = "s" THEN Tail(r) ELSE r
     IN /\ Len(u) >= 4
        /\ <<u[1], u[2], u[3]>> = <<":", "/", "/">>
        /\ \A i \in 4..Len(u) : u[i] \notin Whitespace

\* validator: (v) => !v || pattern.test(v)
imageUrlValidator(v) == Falsy(v) \/ (v.t = "string" /\ UrlPattern(v.s))

\* Validators of the paths a document (or an update) sets; a path that is
\* undefined is not validated.
ReviewValid(d) ==
  /\ d.rating.t = "number" =>
       /\ d.rating.n >= 10 * RatingMin
       /\ d.rating.n <= 10 * RatingMax
  /\ d.rating.t \in {"number", "undefined", "null"}
  /\ d.comment.t = "string" => Len(d.comment.s) <= CommentMaxLength
  /\ d.imageUrl.t = "string" => imageUrlValidator(d.imageUrl)

\* The document Mongoose builds from a payload: setters applied.
ReviewCast(d) ==
  [d EXCEPT !.comment = CastString(d.comment), !.imageUrl = CastString(d.imageUrl)]

\* The collection without the unique index.
DuplicateKeyNoIndex(d) == FALSE

\* The unique index on (product, author): an insert of d collides.
DuplicateKey(d) ==
  \E r \in DOMAIN reviews :
    reviews[r].product = d.product /\ reviews[r].author = d.author

\* The update as a replacement of the three content fields.
ReplaceContent(old, u) ==
  [old EXCEPT !.rating = u.rating, !.comment = u.comment, !.imageUrl = u.imageUrl]

\* The fields an update sets, merged into the stored document.
MergeUpdate(old, u) ==
  [old EXCEPT
     !.rating = IF u.rating = Undefined THEN old.rating ELSE u.rating,
     !.comment = IF u.comment = Undefined THEN old.comment ELSE u.comment,
     !.imageUrl = IF u.imageUrl = Undefined THEN old.imageUrl ELSE u.imageUrl]

(***************************************************************************)
(* The Product model.                                                      *)
(***************************************************************************)
productSchemaPaths ==
  {"id", "title", "description", "price", "discountPercentage", "rating",
   "stock", "tags", "brand", "sku", "weight", "dimensions",
   "warrantyInformation", "shippingInformation", "availabilityStatus",
   "reviews", "returnPolicy", "minimumOrderQuantity", "meta", "images",
   "thumbnail", "category"}

\* The schema is strict (the default): a path it does not declare is not
\* set on the document, neither stored nor readable as a property.
StrictCast(payload) ==
  [f \in (DOMAIN payload) \cap productSchemaPaths |-> payload[f]]

\* product.owner is set (truthy)
HasOwner(p) == "owner" \in DOMAIN p

\* title, price and category are required; price is a Number.
ProductValid(d) ==
  /\ {"title", "price", "category"} \subseteq DOMAIN d
  /\ d.title.t = "string" /\ d.title.s # <<>>
  /\ d.category.t = "string" /\ d.category.s # <<>>
  /\ isFinite(Number(d.price))

Put(f, k, v) == [x \in (DOMAIN f) \cup {k} |-> IF x = k THEN v ELSE f[x]]

Remove(f, k) == [x \in (DOMAIN f) \ {k} |-> f[x]]

Suspended(k) == {r \in BagToSet(inflight) : r.k = k}

RECURSIVE CountOf(_, _)
CountOf(S, b) ==
  IF S = {} THEN 0
  ELSE LET r == CHOOSE x \in S : TRUE IN CopiesIn(r, b) + CountOf(S \ {r}, b)

(***************************************************************************)
(* Review routes.                                                          *)
(***************************************************************************)
\* (!v || v.trim() === ""); v.trim is no function when v is truthy and no
\* string.
TrimThrows(v) == ~Falsy(v) /\ v.t # "string"

\* The blank test without the trim.
IsBlankNoTrim(v) == Falsy(v)

IsBlank(v) == Falsy(v) \/ (v.t = "string" /\ trim(v.s) = <<>>)

RatingGiven(body) == body.rating # Undefined /\ body.rating # Null

\* The "at least one meaningful field" condition, evaluated left to right:
\* "empty" when it holds, "ok" when it does not, "throw" on a TypeError.
ContentCheck(body) ==
  IF RatingGiven(body) THEN "ok"
  ELSE IF TrimThrows(body.comment) THEN "throw"
  ELSE IF ~IsBlank(body.comment) THEN "ok"
  ELSE IF TrimThrows(body.imageUrl) THEN "throw"
  ELSE IF ~IsBlank(body.imageUrl) THEN "ok"
  ELSE "empty"

\* The range test without its upper bound.
RatingRejectedNoMax(rating) ==
  LET num == Number(rating) IN
  \/ ~isFinite(num)
  \/ num.n < 10 * RatingMin

\* !Number.isFinite(num) || num < 1 || num > 5
RatingRejected(rating) ==
  LET num == Number(rating) IN
  \/ ~isFinite(num)
  \/ num.n < 10 * RatingMin
  \/ num.n > 10 * RatingMax

ReviewPayload(a, id, body) ==
  [product |-> id.n, author |-> a,
   rating |-> IF RatingGiven(body) THEN Number(body.rating) ELSE Undefined,
   comment |-> body.comment, imageUrl |-> body.imageUrl]

\* Every suspended create can
\* be given a fresh id.
CanAwaitCreate ==
  nextReviewId + CountOf(Suspended("Review.create"), inflight) <= MaxReviews

\* product.owner && product.owner.toString() === req.payload._id
SelfReview(p, a) == HasOwner(p) /\ p.owner = a

\* GET /products/:id/reviews
ReviewList(cap, id) ==
  /\ BagCardinality(inflight) < cap
  /\ LET R(status, msg) == Reply(Response("ReviewList", Anonymous, id, NoBody, status, msg)) IN
     IF ~isValidObjectId(id) THEN R(400, "Invalid product id")
     ELSE R(200, "list")

\* POST /products/:id/reviews
ReviewPost(cap, a, id, body) ==
  /\ BagCardinality(inflight) < cap
  /\ LET R(status, msg) == Reply(Response("ReviewPost", a, id, body, status, msg)) IN
     IF ~isAuthenticated(a) THEN R(401, "Unauthorized")
     ELSE IF ~isValidObjectId(id) THEN R(400, "Invalid product id")
     ELSE IF ContentCheck(body) = "throw" THEN R(InternalError, "TypeError")
     ELSE IF ContentCheck(body) = "empty" THEN R(400, "Provide rating, comment, or imageUrl")
     ELSE IF RatingGiven(body) /\ RatingRejected(body.rating)
          THEN R(400, "rating must be between 1 and 5")
     ELSE IF id.n \notin DOMAIN products THEN R(404, "Product not found")
     ELSE IF SelfReview(products[id.n], a) THEN R(403, "You cannot review your own product")
     ELSE /\ CanAwaitCreate
          /\ Await("Review.create", "ReviewPost", a, id, body, ReviewPayload(a, id, body))

\* POST /products/:id/reviews, the variant that requires an owner
ReviewPostV1(cap, a, id, body) ==
  /\ BagCardinality(inflight) < cap
  /\ LET R(status, msg) == Reply(Response("ReviewPostV1", a, id, body, status, msg)) IN
     IF ~isAuthenticated(a) THEN R(401, "Unauthorized")
     ELSE IF ~isValidObjectId(id) THEN R(400, "Invalid product id")
     ELSE IF ContentCheck(body) = "throw" THEN R(InternalError, "TypeError")
     ELSE IF ContentCheck(body) = "empty" THEN R(400, "Provide rating, comment, or imageUrl")
     ELSE IF RatingGiven(body) /\ RatingRejected(body.rating)
          THEN R(400, "rating must be between 1 and 5")
     ELSE IF id.n \notin DOMAIN products THEN R(404, "Product not found")
     ELSE IF ~HasOwner(products[id.n]) THEN R(400, "Product owner not set")
     ELSE IF products[id.n].owner = a THEN R(403, "You cannot review your own product")
     ELSE /\ CanAwaitCreate
          /\ Await("Review.create", "ReviewPostV1", a, id, body, ReviewPayload(a, id, body))

\* The update document of PATCH /reviews/:reviewId: a key that is not set
\* is Undefined.
ReviewUpdate(body) ==
  [rating |-> IF RatingGiven(body) THEN Number(body.rating) ELSE Undefined,
   comment |-> body.comment, imageUrl |-> body.imageUrl]

\* Object.keys(update).length === 0
NoKeys(u) == u.rating = Undefined /\ u.comment = Undefined /\ u.imageUrl = Undefined

\* The author comparison left out.
NotAuthorNever(r, a) == FALSE

\* review.author.toString() !== req.payload._id
NotAuthor(r, a) == r.author # a

\* PATCH /reviews/:reviewId
ReviewPatch(cap, a, id, body) ==
  /\ BagCardinality(inflight) < cap
  /\ LET R(status, msg) == Reply(Response("ReviewPatch", a, id, body, status, msg)) IN
     IF ~isAuthenticated(a) THEN R(401, "Unauthorized")
     ELSE IF ~isValidObjectId(id) THEN R(400, "Invalid review id")
     ELSE IF id.n \notin DOMAIN reviews THEN R(404, "Review not found")
     ELSE IF NotAuthor(reviews[id.n], a) THEN R(403, "Not allowed to edit this review")
     ELSE IF RatingGiven(body) /\ RatingRejected(body.rating)
          THEN R(400, "rating must be between 1 and 5")
     ELSE IF NoKeys(ReviewUpdate(body)) THEN R(400, "No changes provided")
     ELSE Await("Review.findByIdAndUpdate", "ReviewPatch", a, id, body, ReviewUpdate(body))

\* DELETE /reviews/:reviewId
ReviewDelete(cap, a, id) ==
  /\ BagCardinality(inflight) < cap
  /\ LET R(status, msg) == Reply(Response("ReviewDelete", a, id, NoBody, status, msg)) IN
     IF ~isAuthenticated(a) THEN R(401, "Unauthorized")
     ELSE IF ~isValidObjectId(id) THEN R(400, "Invalid review id")
     ELSE IF id.n \notin DOMAIN reviews THEN R(404, "Review not found")
     ELSE IF NotAuthor(reviews[id.n], a) THEN R(403, "Not allowed to delete this review")
     ELSE Await("Review.findByIdAndDelete", "ReviewDelete", a, id, NoBody, NoBody)

(***************************************************************************)
(* Product routes.                                                         *)
(***************************************************************************)
\* GET /products/:id
ProductGet(cap, id) ==
  /\ BagCardinality(inflight) < cap
  /\ LET R(status, msg) == Reply(Response("ProductGet", Anonymous, id, NoBody, status, msg)) IN
     IF ~isValidObjectId(id) THEN R(400, "Invalid product id")
     ELSE IF id.n \notin DOMAIN products THEN R(404, "Product not found")
     ELSE R(200, "document")

\* GET /products/:id without the id guard: findById rejects with a
\* CastError, which goes to next(err).
ProductGetV1(cap, id) ==
  /\ BagCardinality(inflight) < cap
  /\ LET R(status, msg) == Reply(Response("ProductGetV1", Anonymous, id, NoBody, status, msg)) IN
     IF ~isValidObjectId(id) THEN R(InternalError, "CastError")
     ELSE IF id.n \notin DOMAIN products THEN R(404, "Product not found")
     ELSE R(200, "document")

\* POST /products
ProductPost(cap, a, body) ==
  /\ BagCardinality(inflight) < cap
  /\ LET R(status, msg) == Response("ProductPost", a, Malformed, body, status, msg)
         payload == [title |-> body.title, price |-> Number(body.price),
                     category |-> body.category, owner |-> a]
         doc == StrictCast(payload)
     IN
     IF ~isAuthenticated(a) THEN Reply(R(401, "Unauthorized"))
     ELSE IF Falsy(body.title) \/ body.price = Undefined \/ Falsy(body.category)
          THEN Reply(R(400, "title, price, category are required"))
     ELSE IF ~isFinite(Number(body.price)) \/ Number(body.price).n < 0
          THEN Reply(R(400, "price must be a positive number"))
     ELSE IF ~ProductValid(doc) THEN Reply(R(InternalError, "ValidationError"))
     ELSE /\ nextProductId <= MaxProducts
          /\ products' = Put(products, nextProductId, doc)
          /\ nextProductId' = nextProductId + 1
          /\ out' = R(201, "created")
          /\ UNCHANGED <<reviews, nextReviewId, inflight>>

\* product.owner.toString() of a product without owner is a TypeError.
\* DELETE /products/:id
ProductDelete(cap, a, id) ==
  /\ BagCardinality(inflight) < cap
  /\ LET R(status, msg) == Reply(Response("ProductDelete", a, id, NoBody, status, msg)) IN
     IF ~isAuthenticated(a) THEN R(401, "Unauthorized")
     ELSE IF ~isValidObjectId(id) THEN R(400, "Invalid product id")
     ELSE IF id.n \notin DOMAIN products THEN R(404, "Product not found")
     ELSE IF ~HasOwner(products[id.n]) THEN R(InternalError, "TypeError")
     ELSE IF products[id.n].owner # a THEN R(403, "Not allowed to delete this product")
     ELSE Await("Product.findByIdAndDelete", "ProductDelete", a, id, NoBody, NoBody)

\* DELETE /products/:id without the id guard
ProductDeleteV1(cap, a, id) ==
  /\ BagCardinality(inflight) < cap
  /\ LET R(status, msg) == Reply(Response("ProductDeleteV1", a, id, NoBody, status, msg)) IN
     IF ~isAuthenticated(a) THEN R(401, "Unauthorized")
     ELSE IF ~isValidObjectId(id) THEN R(InternalError, "CastError")
     ELSE IF id.n \notin DOMAIN products THEN R(404, "Product not found")
     ELSE IF ~HasOwner(products[id.n]) THEN R(InternalError, "TypeError")
     ELSE IF products[id.n].owner # a THEN R(403, "Not allowed to delete this product")
     ELSE Await("Product.findByIdAndDelete", "ProductDeleteV1", a, id, NoBody, NoBody)

\* The update document of PATCH /products/:id, price coerced to a number.
ProductUpdate(body) ==
  [f \in {k \in {"title", "price", "category"} : body[k] # Undefined} |->
     IF f = "price" THEN Number(body.price) ELSE body[f]]

\* The same, price as given.
ProductUpdateV1(body) ==
  [f \in {k \in {"title", "price", "category"} : body[k] # Undefined} |-> body[f]]

\* PATCH /products/:id
ProductPatch(cap, a, id, body) ==
  /\ BagCardinality(inflight) < cap
  /\ LET R(status, msg) == Reply(Response("ProductPatch", a, id, body, status, msg)) IN
     IF ~isAuthenticated(a) THEN R(401, "Unauthorized")
     ELSE IF ~isValidObjectId(id) THEN R(400, "Invalid product id")
     ELSE IF id.n \notin DOMAIN products THEN R(404, "Product not found")
     ELSE IF ~HasOwner(products[id.n]) THEN R(InternalError, "TypeError")
     ELSE IF products[id.n].owner # a THEN R(403, "Not allowed to edit this product")
     ELSE IF /\ body.price # Undefined
             /\ (~isFinite(Number(body.price)) \/ Number(body.price).n < 0)
          THEN R(400, "price must be a positive number")
     ELSE Await("Product.findByIdAndUpdate", "ProductPatch", a, id, body, ProductUpdate(body))

\* PATCH /products/:id without the id guard and the price check
ProductPatchV1(cap, a, id, body) ==
  /\ BagCardinality(inflight) < cap
  /\ LET R(status, msg) == Reply(Response("ProductPatchV1", a, id, body, status, msg)) IN
     IF ~isAuthenticated(a) THEN R(401, "Unauthorized")
     ELSE IF ~isValidObjectId(id) THEN R(InternalError, "CastError")
     ELSE IF id.n \notin DOMAIN products THEN R(404, "Product not found")
     ELSE IF ~HasOwner(products[id.n]) THEN R(InternalError, "TypeError")
     ELSE IF products[id.n].owner # a THEN R(403, "Not allowed to edit this product")
     ELSE Await("Product.findByIdAndUpdate", "ProductPatchV1", a, id, body, ProductUpdateV1(body))

(***************************************************************************)
(* The awaited store writes and the responses that follow them.            *)
(***************************************************************************)
\* Review.create with the duplicate-key error passed on to next(err).
ReviewCreateLeak(r) ==
  LET R(status, msg) == Response(r.op, r.actor, r.id, r.body, status, msg)
      d == ReviewCast(r.doc)
  IN
  IF ~ReviewValid(d)
  THEN out' = R(InternalError, "ValidationError") /\ UNCHANGED store
  ELSE IF DuplicateKey(d)
  THEN out' = R(InternalError, "MongoServerError") /\ UNCHANGED store
  ELSE /\ reviews' = Put(reviews, nextReviewId, d)
       /\ nextReviewId' = nextReviewId + 1
       /\ out' = R(201, "created")
       /\ UNCHANGED <<products, nextProductId>>

\* Review.create(payload), then 201, or 409 on the duplicate-key error
ReviewCreate(r) ==
  LET R(status, msg) == Response(r.op, r.actor, r.id, r.body, status, msg)
      d == ReviewCast(r.doc)
  IN
  IF ~ReviewValid(d)
  THEN out' = R(InternalError, "ValidationError") /\ UNCHANGED store
  ELSE IF DuplicateKey(d)
  THEN out' = R(409, "You already reviewed this product") /\ UNCHANGED store
  ELSE /\ reviews' = Put(reviews, nextReviewId, d)
       /\ nextReviewId' = nextReviewId + 1
       /\ out' = R(201, "created")
       /\ UNCHANGED <<products, nextProductId>>

\* The update applied before its validators run.
ReviewFindByIdAndUpdateLate(r) ==
  LET R(status, msg) == Response(r.op, r.actor, r.id, r.body, status, msg)
      u == ReviewCast(r.doc)
  IN
  IF r.id.n \notin DOMAIN reviews
  THEN out' = R(200, "null") /\ UNCHANGED store
  ELSE /\ reviews' = [reviews EXCEPT ![r.id.n] = MergeUpdate(@, u)]
       /\ out' = IF ReviewValid(u) THEN R(200, "document")
                 ELSE R(InternalError, "ValidationError")
       /\ UNCHANGED <<products, nextProductId, nextReviewId>>

\* The update with the upsert option: a missing document is inserted.
ReviewFindByIdAndUpdateUpsert(r) ==
  LET R(status, msg) == Response(r.op, r.actor, r.id, r.body, status, msg)
      u == ReviewCast(r.doc)
      blank == [rating |-> Undefined, comment |-> Undefined, imageUrl |-> Undefined,
                product |-> 0, author |-> r.actor]
  IN
  IF ~ReviewValid(u)
  THEN out' = R(InternalError, "ValidationError") /\ UNCHANGED store
  ELSE /\ reviews' = IF r.id.n \in DOMAIN reviews
                     THEN [reviews EXCEPT ![r.id.n] = MergeUpdate(@, u)]
                     ELSE Put(reviews, r.id.n, MergeUpdate(blank, u))
       /\ out' = R(200, "document")
       /\ UNCHANGED <<products, nextProductId, nextReviewId>>

\* Review.findByIdAndUpdate(reviewId, update, {new, runValidators}), then
\* res.json(updated)
ReviewFindByIdAndUpdate(r) ==
  LET R(status, msg) == Response(r.op, r.actor, r.id, r.body, status, msg)
      u == ReviewCast(r.doc)
  IN
  IF ~ReviewValid(u)
  THEN out' = R(InternalError, "ValidationError") /\ UNCHANGED store
  ELSE IF r.id.n \notin DOMAIN reviews
  THEN out' = R(200, "null") /\ UNCHANGED store
  ELSE /\ reviews' = [reviews EXCEPT ![r.id.n] = MergeUpdate(@, u)]
       /\ out' = R(200, "document")
       /\ UNCHANGED <<products, nextProductId, nextReviewId>>

\* Review.findByIdAndDelete(reviewId), then "Review deleted"
ReviewFindByIdAndDelete(r) ==
  /\ reviews' = Remove(reviews, r.id.n)
  /\ out' = Response(r.op, r.actor, r.id, r.body, 200, "Review deleted")
  /\ UNCHANGED <<products, nextProductId, nextReviewId>>

\* Product.findByIdAndUpdate(id, update, {new, runValidators})
ProductFindByIdAndUpdate(r) ==
  LET R(status, msg) == Response(r.op, r.actor, r.id, r.body, status, msg)
      u == StrictCast(r.doc)
      valid == /\ "title" \in DOMAIN u => u.title.t = "string" /\ u.title.s # <<>>
               /\ "category" \in DOMAIN u => u.category.t = "string" /\ u.category.s # <<>>
               /\ "price" \in DOMAIN u => isFinite(Number(u.price))
  IN
  IF ~valid
  THEN out' = R(InternalError, "ValidationError") /\ UNCHANGED store
  ELSE IF r.id.n \notin DOMAIN products
  THEN out' = R(200, "null") /\ UNCHANGED store
  ELSE /\ products' = [products EXCEPT ![r.id.n] =
                         [f \in (DOMAIN @) \cup (DOMAIN u) |->
                            IF f \in DOMAIN u THEN u[f] ELSE @[f]]]
       /\ out' = R(200, "document")
       /\ UNCHANGED <<reviews, nextProductId, nextReviewId>>

\* Product.findByIdAndDelete(id), then "Product deleted"
ProductFindByIdAndDelete(r) ==
  /\ products' = Remove(products, r.id.n)
  /\ out' = Response(r.op, r.actor, r.id, r.body, 200, "Product deleted")
  /\ UNCHANGED <<reviews, nextProductId, nextReviewId>>

\* The event loop resumes a handler whose awaited store call settles.
Resume(r) ==
  /\ r \in BagToSet(inflight)
  /\ inflight' = inflight (-) SetToBag({r})
  /\ CASE r.k = "Review.create" -> ReviewCreate(r)
       [] r.k = "Review.findByIdAndUpdate" -> ReviewFindByIdAndUpdate(r)
       [] r.k = "Review.findByIdAndDelete" -> ReviewFindByIdAndDelete(r)
       [] r.k = "Product.findByIdAndUpdate" -> ProductFindByIdAndUpdate(r)
       [] r.k = "Product.findByIdAndDelete" -> ProductFindByIdAndDelete(r)

(***************************************************************************)
(* The server: every route, requests interleaved at their awaits.          *)
(***************************************************************************)
Init ==
  /\ products = <<>>
  /\ reviews = <<>>
  /\ nextProductId = 1
  /\ nextReviewId = 1
  /\ inflight = EmptyBag
  /\ out = NoOut

Actors == Users \cup {Anonymous}

ProductPathIds == {WellFormed(n) : n \in 1..MaxProducts} \cup {Malformed}

ReviewPathIds == {WellFormed(n) : n \in 1..MaxReviews} \cup {Malformed}

ReviewBody(rating, comment, imageUrl) ==
  [rating |-> rating, comment |-> comment, imageUrl |-> imageUrl]

\* A comment, and a blank comment.
ReviewBodies ==
  {ReviewBody(Undefined, Str(<<"h", "i">>), Undefined),
   ReviewBody(Undefined, Str(<<" ">>), Undefined)}

ProductBodies ==
  {[title |-> Str(<<"t">>), price |-> Num(100), category |-> Str(<<"c">>)]}

Next ==
  \/ \E id \in ProductPathIds : ProductGet(MaxInFlight, id)
  \/ \E id \in ProductPathIds : ProductGetV1(MaxInFlight, id)
  \/ \E a \in Actors, body \in ProductBodies : ProductPost(MaxInFlight, a, body)
  \/ \E a \in Actors, id \in ProductPathIds : ProductDelete(MaxInFlight, a, id)
  \/ \E a \in Actors, id \in ProductPathIds : ProductDeleteV1(MaxInFlight, a, id)
  \/ \E a \in Actors, id \in ProductPathIds, body \in ProductBodies :
       ProductPatch(MaxInFlight, a, id, body)
  \/ \E a \in Actors, id \in ProductPathIds, body \in ProductBodies :
       ProductPatchV1(MaxInFlight, a, id, body)
  \/ \E id \in ProductPathIds : ReviewList(MaxInFlight, id)
  \/ \E a \in Actors, id \in ProductPathIds, body \in ReviewBodies :
       ReviewPost(MaxInFlight, a, id, body)
  \/ \E a \in Actors, id \in ProductPathIds, body \in ReviewBodies :
       ReviewPostV1(MaxInFlight, a, id, body)
  \/ \E a \in Actors, id \in ReviewPathIds, body \in ReviewBodies :
       ReviewPatch(MaxInFlight, a, id, body)
  \/ \E a \in Actors, id \in ReviewPathIds : ReviewDelete(MaxInFlight, a, id)
  \/ \E r \in BagToSet(inflight) : Resume(r)

Spec == Init /\ [][Next]_vars

(***************************************************************************)
(* The review write routes of one actor on one product, over every shape   *)
(* of request body, one request at a time (a capacity of 1).                                 *)
(***************************************************************************)
RatingInputs ==
  {Undefined, Null, Num(0), Num(25), Num(30), Num(60), Str(<<"a", "b", "c">>)}

CommentInputs == {Undefined, Str(<<>>), Str(<<" ">>), Str(<<"h", "i">>)}

ImageUrlInputs ==
  {Undefined, Str(<<" ">>), Str(<<"h", "t", "t", "p", ":", "/", "/", "a">>)}

AllReviewBodies ==
  {ReviewBody(r, c, i) : r \in RatingInputs, c \in CommentInputs, i \in ImageUrlInputs}

NextBodies ==
  \/ \E body \in ProductBodies : ProductPost(1, "u1", body)
  \/ \E body \in AllReviewBodies : ReviewPost(1, "u1", WellFormed(1), body)
  \/ \E id \in ReviewPathIds, body \in AllReviewBodies : ReviewPatch(1, "u1", id, body)
  \/ \E id \in ReviewPathIds : ReviewDelete(1, "u1", id)
  \/ \E r \in BagToSet(inflight) : Resume(r)

SpecBodies == Init /\ [][NextBodies]_vars

(***************************************************************************)
(* Properties.                                                             *)
(***************************************************************************)
PostOps == {"ReviewPost", "ReviewPostV1"}

HasReviewIn(rv, p, a) ==
  \E r \in DOMAIN rv : rv[r].product = p /\ rv[r].author = a

AllWhitespace(q) == \A i \in 1..Len(q) : q[i] \in Whitespace

\* A text field that is absent or blank.
BlankText(v) == v = Undefined \/ (v.t = "string" /\ AllWhitespace(v.s))

\* No rating, no comment and no image.
NoContent(b) ==
  /\ b.rating \in {Undefined, Null}
  /\ BlankText(b.comment)
  /\ BlankText(b.imageUrl)

\* A number in [1, 5].
InRange(v) == v.t = "number" /\ v.n >= 10 /\ v.n <= 50

\* A rating that is given and is a number outside [1, 5] or a text with a
\* letter in it.
BadRating(v) ==
  \/ v.t = "number" /\ ~InRange(v)
  \/ v.t = "string" /\ \E i \in 1..Len(v.s) : v.s[i] \in {"a", "b", "c"}

AcceptableBody(b) ==
  /\ ~NoContent(b)
  /\ b.rating \in {Undefined, Null} \/ InRange(b.rating)

\* The step is the second step of a handler: its awaited write.
Resumed == BagCardinality(inflight') < BagCardinality(inflight)

C1_UniquePairs ==
  \A r1, r2 \in DOMAIN reviews :
    (reviews[r1].product = reviews[r2].product /\ reviews[r1].author = reviews[r2].author)
      => r1 = r2

C1_DuplicatePost ==
  (out'.op \in PostOps /\ out'.id.valid /\ HasReviewIn(reviews, out'.id.n, out'.actor))
    => /\ reviews' = reviews
       /\ Resumed => out'.status = 409

\* C1: under every interleaving of review POST, PATCH and DELETE requests no
\* two reviews share a (product, author) pair; a POST that answers while the
\* pair has a review adds none, and one that got as far as its insert
\* answers 409.
C1_OneReviewPerPair == [](C1_UniquePairs) /\ [][C1_DuplicatePost]_vars

C1_Witness ==
  /\ out.op \in PostOps
  /\ out.status = 409
  /\ HasReviewIn(reviews, out.id.n, out.actor)

C2_Insert ==
  \A r \in Suspended("Review.create") :
    (inflight' = inflight (-) SetToBag({r})) =>
      IF HasReviewIn(reviews, r.id.n, r.actor)
      THEN out'.status = 409 /\ reviews' = reviews
      ELSE /\ out'.status = 201
           /\ HasReviewIn(reviews', r.id.n, r.actor)
           /\ Cardinality(DOMAIN reviews') = Cardinality(DOMAIN reviews) + 1

\* C2: of the POSTs by one author on one product that are suspended on
\* their insert together, the one whose insert finds no review of the pair
\* answers 201 and adds it, every one whose insert finds a review answers
\* 409 and adds nothing, and none answers 500.
C2_ConcurrentPosts == [][C2_Insert]_vars

\* One POST has been answered 201 while another of the same author on the
\* same product, which passed its checks before that insert, still waits.
C2_Witness ==
  \E r \in Suspended("Review.create") :
    /\ out.op \in PostOps
    /\ out.status = 201
    /\ out.actor = r.actor
    /\ out.id = r.id

\* C3: an authenticated POST of an acceptable body on an existing product is
\* answered 403 exactly when the product has an owner and it is the actor, a
\* product without owner does not stop the creation (201, or 409 for a
\* second review), and no review's author is the owner of its product.
C3_SelfReviewOnly ==
  /\ (/\ out.op \in PostOps
      /\ isAuthenticated(out.actor)
      /\ out.id.valid
      /\ out.id.n \in DOMAIN products
      /\ AcceptableBody(out.body))
     => LET p == products[out.id.n] IN
        /\ out.status = 403 <=> (HasOwner(p) /\ p.owner = out.actor)
        /\ ~HasOwner(p) => out.status \in {201, 409}
  /\ \A r \in DOMAIN reviews :
       reviews[r].product \in DOMAIN products =>
         LET p == products[reviews[r].product] IN
         ~(HasOwner(p) /\ p.owner = reviews[r].author)

C4_Forbidden ==
  (/\ out.op \in {"ReviewPatch", "ReviewDelete"}
   /\ isAuthenticated(out.actor)
   /\ out.id.valid
   /\ out.id.n \in DOMAIN reviews
   /\ reviews[out.id.n].author # out.actor)
  => out.status = 403

C4_ByAuthor ==
  /\ out'.status = 403 => reviews' = reviews
  /\ \A id \in DOMAIN reviews :
       (id \notin DOMAIN reviews' \/ reviews'[id] # reviews[id])
         => /\ out'.op \in {"ReviewPatch", "ReviewDelete"}
            /\ out'.actor = reviews[id].author
            /\ out'.id = WellFormed(id)

\* C4: a PATCH or DELETE of an existing review by an authenticated actor who
\* is not its author answers 403 and changes no review; a review changes or
\* disappears only in a PATCH or DELETE of that review by its author.
C4_AuthorOnly == [](C4_Forbidden) /\ [][C4_ByAuthor]_vars

C4_Witness ==
  /\ out.op = "ReviewPatch"
  /\ out.status = 403
  /\ out.id.n \in DOMAIN reviews
  /\ reviews[out.id.n].author # out.actor

\* C5: every stored review has a rating, a non-blank comment or a non-blank
\* imageUrl.
C5_ContentKept == \A r \in DOMAIN reviews : ~NoContent(reviews[r])

C6_EmptyReview ==
  (out.op \in PostOps /\ isAuthenticated(out.actor) /\ out.id.valid)
    => (NoContent(out.body)
          <=> (out.status = 400 /\ out.msg = "Provide rating, comment, or imageUrl"))

\* C6: an authenticated POST with a well-formed product id answers 400
\* "Provide rating, comment, or imageUrl" exactly when rating is absent or
\* null and comment and imageUrl are each absent or blank, and that answer
\* leaves the store as it was.
C6_ContentPresence ==
  /\ [](C6_EmptyReview)
  /\ [][out'.msg = "Provide rating, comment, or imageUrl" => UNCHANGED store]_vars

C6_Witness ==
  /\ out.op = "ReviewPost"
  /\ out.msg = "Provide rating, comment, or imageUrl"
  /\ out.body.rating = Null
  /\ out.body.comment = Str(<<" ">>)

C7_StoredInRange ==
  \A r \in DOMAIN reviews : reviews[r].rating.t = "number" => InRange(reviews[r].rating)

C7_Rejected ==
  (/\ isAuthenticated(out.actor)
   /\ out.id.valid
   /\ \/ out.op \in PostOps
      \/ /\ out.op = "ReviewPatch"
         /\ out.id.n \in DOMAIN reviews
         /\ reviews[out.id.n].author = out.actor
   /\ BadRating(out.body.rating))
  => out.status = 400 /\ out.msg = "rating must be between 1 and 5"

\* C7: every stored rating lies in [1, 5]; a create, or an update of an
\* existing review by its author, whose rating is a number outside [1, 5]
\* or no number answers 400 "rating must be between 1 and 5" and leaves
\* the store as it was.
C7_RatingRange ==
  /\ [](C7_StoredInRange /\ C7_Rejected)
  /\ [][out'.msg = "rating must be between 1 and 5" => UNCHANGED store]_vars

C7_Witness ==
  /\ out.op = "ReviewPatch"
  /\ out.msg = "rating must be between 1 and 5"
  /\ out.body.rating = Num(60)
  /\ out.id.n \in DOMAIN reviews

\* C8: every stored rating is an integer, and a create or update whose
\* rating is a number with a fractional part answers 400.
C8_IntegerRating ==
  /\ \A r \in DOMAIN reviews :
       reviews[r].rating.t = "number" => reviews[r].rating.n % 10 = 0
  /\ (/\ out.op \in PostOps \cup {"ReviewPatch"}
      /\ out.body.rating.t = "number"
      /\ out.body.rating.n % 10 # 0)
     => out.status \in {400, 401, 403, 404}

\* C9: an authenticated PATCH or DELETE of a product with a well-formed id
\* answers 404 when the product does not exist and 403 when the product
\* exists and its owner is absent or is not the actor.
C9_OwnerOnly ==
  (/\ out.op \in {"ProductPatch", "ProductDelete"}
   /\ isAuthenticated(out.actor)
   /\ out.id.valid)
  => /\ (out.id.n \notin DOMAIN products /\ out.msg # "Product deleted")
          => out.status = 404
     /\ (/\ out.id.n \in DOMAIN products
         /\ ~(HasOwner(products[out.id.n]) /\ products[out.id.n].owner = out.actor))
          => out.status = 403

IdRoutes ==
  {"ProductGet", "ProductGetV1", "ProductPatch", "ProductPatchV1",
   "ProductDelete", "ProductDeleteV1", "ReviewList", "ReviewPost",
   "ReviewPostV1", "ReviewPatch", "ReviewDelete"}

PublicRoutes == {"ProductGet", "ProductGetV1", "ReviewList"}

\* C10: a request to a route with an id parameter that passes authentication
\* where it is required and carries a malformed id answers 400.
C10_InvalidId ==
  (/\ out.op \in IdRoutes
   /\ out.op \in PublicRoutes \/ isAuthenticated(out.actor)
   /\ ~out.id.valid)
  => out.status = 400

(***************************************************************************)
(* The write routes over bodies that fail a check of the route or a        *)
(* validator of the schema, one request at a time.                         *)
(***************************************************************************)
\* A comment one character longer than the schema allows.
LongComment == Str([i \in 1..(CommentMaxLength + 1) |-> "x"])

\* A rating; a comment; nothing; an imageUrl that is no URL; a comment that
\* is too long.
FaultyReviewBodies ==
  {ReviewBody(Num(30), Undefined, Undefined),
   ReviewBody(Undefined, Str(<<"h", "i">>), Undefined),
   ReviewBody(Undefined, Undefined, Undefined),
   ReviewBody(Undefined, Undefined, Str(<<"x">>)),
   ReviewBody(Undefined, LongComment, Undefined)}

ProductBody(title, price, category) ==
  [title |-> title, price |-> price, category |-> category]

\* A product; no title; a negative price; a price that is no number.
FaultyProductBodies ==
  {ProductBody(Str(<<"t">>), Num(100), Str(<<"c">>)),
   ProductBody(Undefined, Num(100), Str(<<"c">>)),
   ProductBody(Str(<<"t">>), Num(-10), Str(<<"c">>)),
   ProductBody(Str(<<"t">>), Str(<<"a", "b", "c">>), Str(<<"c">>))}

NextWrites ==
  \/ \E a \in Actors, body \in FaultyProductBodies : ProductPost(1, a, body)
  \/ \E a \in Actors, id \in ProductPathIds, body \in FaultyProductBodies :
       ProductPatch(1, a, id, body)
  \/ \E a \in Actors, id \in ProductPathIds : ProductDelete(1, a, id)
  \/ \E a \in Actors, id \in ProductPathIds, body \in FaultyReviewBodies :
       ReviewPost(1, a, id, body)
  \/ \E a \in Actors, id \in ReviewPathIds, body \in FaultyReviewBodies :
       ReviewPatch(1, a, id, body)
  \/ \E a \in Actors, id \in ReviewPathIds : ReviewDelete(1, a, id)
  \/ \E r \in BagToSet(inflight) : Resume(r)

SpecWrites == Init /\ [][NextWrites]_vars

ErrorStatuses == {400, 401, 403, 404, 409, 500}

C11_Frame ==
  /\ out'.status \in ErrorStatuses => UNCHANGED store
  /\ out' = NoOut => UNCHANGED store

\* C11: a step of a review or product write request that answers 400, 401,
\* 403, 404, 409 or 500 leaves the stored reviews and products as they
\* were, and so does every step that only suspends the request on its
\* store call: a request that ends in an error has written nothing.
C11_ErrorsWriteNothing == [][C11_Frame]_vars

\* An update of an existing review by its author was refused by a validator
\* of the schema.
C11_Witness ==
  /\ out.op = "ReviewPatch"
  /\ out.status = 500
  /\ out.msg = "ValidationError"
  /\ out.id.n \in DOMAIN reviews
  /\ out.body.comment = LongComment

\* The review ids that have been given out and are no longer stored.
Deleted(rv, n) == {id \in 1..(n - 1) : id \notin DOMAIN rv}

C12_Lifecycle ==
  /\ \A id \in (DOMAIN reviews') \ (DOMAIN reviews) :
       /\ id \notin Deleted(reviews, nextReviewId)
       /\ out'.op \in PostOps
       /\ out'.status = 201
  /\ \A id \in (DOMAIN reviews) \ (DOMAIN reviews') :
       /\ out'.op = "ReviewDelete"
       /\ out'.id = WellFormed(id)
       /\ out'.status = 200
  /\ Deleted(reviews, nextReviewId) \subseteq Deleted(reviews', nextReviewId')
  /\ (/\ ~Resumed
      /\ out'.op \in {"ReviewPatch", "ReviewDelete"}
      /\ isAuthenticated(out'.actor)
      /\ out'.id.valid
      /\ out'.id.n \in Deleted(reviews, nextReviewId))
     => out'.status = 404

\* C12: a review appears only in the step of a POST that answers 201, under
\* an id never used before; it disappears only in the step of a DELETE of
\* its id that answers 200; an id whose review was removed never holds a
\* review again; and a PATCH or DELETE of such an id that arrives after the
\* removal answers 404.
C12_ReviewLifecycle == [][C12_Lifecycle]_vars

\* A PATCH has been answered 404 for the id of a review that was removed.
C12_Witness ==
  /\ out.op = "ReviewPatch"
  /\ out.status = 404
  /\ out.id.valid
  /\ out.id.n \in Deleted(reviews, nextReviewId)

(***************************************************************************)
(* POST /products in its three versions, over every shape of body.         *)
(***************************************************************************)
\* Product.create(payload), then 201
ProductCreate(op, a, body, payload) ==
  LET R(status, msg) == Response(op, a, Malformed, body, status, msg)
      doc == StrictCast(payload)
  IN
  IF ~ProductValid(doc) THEN Reply(R(InternalError, "ValidationError"))
  ELSE /\ nextProductId <= MaxProducts
       /\ products' = Put(products, nextProductId, doc)
       /\ nextProductId' = nextProductId + 1
       /\ out' = R(201, "created")
       /\ UNCHANGED <<reviews, nextReviewId, inflight>>

\* POST /products with the !price test, no coercion of the price, the owner
\* in the payload; the schema casts the price to a Number.
ProductPostV1(cap, a, body) ==
  /\ BagCardinality(inflight) < cap
  /\ LET R(status, msg) == Response("ProductPostV1", a, Malformed, body, status, msg) IN
     IF ~isAuthenticated(a) THEN Reply(R(401, "Unauthorized"))
     ELSE IF Falsy(body.title) \/ Falsy(body.price) \/ Falsy(body.category)
          THEN Reply(R(400, "title, price, category are required"))
     ELSE ProductCreate("ProductPostV1", a, body,
                        [title |-> body.title, price |-> Number(body.price),
                         category |-> body.category, owner |-> a])

\* POST /products with the !price test and no owner in the payload.
ProductPostV0(cap, a, body) ==
  /\ BagCardinality(inflight) < cap
  /\ LET R(status, msg) == Response("ProductPostV0", a, Malformed, body, status, msg) IN
     IF ~isAuthenticated(a) THEN Reply(R(401, "Unauthorized"))
     ELSE IF Falsy(body.title) \/ Falsy(body.price) \/ Falsy(body.category)
          THEN Reply(R(400, "title, price, category are required"))
     ELSE ProductCreate("ProductPostV0", a, body,
                        [title |-> body.title, price |-> Number(body.price),
                         category |-> body.category])

TitleInputs == {Undefined, Str(<<>>), Str(<<"t">>)}

PriceInputs ==
  {Undefined, Null, Num(0), Num(100), Num(-10), Str(<<"5">>), Str(<<"a", "b", "c">>)}

CategoryInputs == {Undefined, Str(<<"c">>)}

AllProductBodies ==
  {ProductBody(t, pr, c) : t \in TitleInputs, pr \in PriceInputs, c \in CategoryInputs}

NextProductBodies ==
  \/ \E a \in Actors, body \in AllProductBodies : ProductPost(1, a, body)
  \/ \E a \in Actors, body \in AllProductBodies : ProductPostV1(1, a, body)
  \/ \E a \in Actors, body \in AllProductBodies : ProductPostV0(1, a, body)

SpecProductBodies == Init /\ [][NextProductBodies]_vars

ProductPostOps == {"ProductPost", "ProductPostV0"}

\* A title, a category and a price that is a number >= 0.
GoodProduct(b) ==
  /\ b.title.t = "string" /\ b.title.s # <<>>
  /\ b.category.t = "string" /\ b.category.s # <<>>
  /\ b.price.t = "number" /\ b.price.n >= 0

\* No title, no category, no price, a negative price or a price with a
\* letter in it.
BadProduct(b) ==
  \/ b.title = Undefined \/ b.title = Str(<<>>)
  \/ b.category = Undefined
  \/ b.price = Undefined
  \/ b.price.t = "number" /\ b.price.n < 0
  \/ b.price.t = "string" /\ \E i \in 1..Len(b.price.s) : b.price.s[i] \in {"a", "b", "c"}

\* C13: an authenticated POST /products with a title, a category and a
\* price that is a number >= 0 answers 201 and the store then holds a product
\* of that title, price and category whose owner is the actor; one without
\* title, price or category, or with a negative or non-numeric price,
\* answers 400.
C13_ProductCreate ==
  (out.op \in ProductPostOps /\ isAuthenticated(out.actor))
    => /\ GoodProduct(out.body) =>
            /\ out.status = 201
            /\ \E p \in DOMAIN products :
                 /\ products[p].title = out.body.title
                 /\ products[p].price = out.body.price
                 /\ products[p].category = out.body.category
                 /\ HasOwner(products[p])
                 /\ products[p].owner = out.actor
       /\ BadProduct(out.body) => out.status = 400

(***************************************************************************)
(* GET /products over the contents of the catalog and the query strings.   *)
(***************************************************************************)
MaxCatalog == 2

RECURSIVE DigitRun(_, _)
\* The number of digits of q from position i on.
DigitRun(q, i) ==
  IF i <= Len(q) /\ IsDigit(q[i]) THEN 1 + DigitRun(q, i + 1) ELSE 0

\* Number(v) in the place of parseFloat(v).
ParseFloatStrict(v) == Number(v)

\* parseFloat(v): leading white space skipped, then the longest prefix that
\* is a decimal literal (digits, and one fractional digit), what follows it
\* ignored; NaN when there is none.  undefined reads as "undefined".
parseFloat(v) ==
  IF v.t # "string" THEN NaN
  ELSE LET w == TrimStart(v.s)
           k == DigitRun(w, 1)
       IN IF k = 0 THEN NaN
          ELSE IF Len(w) >= k + 2 /\ w[k + 1] = "." /\ IsDigit(w[k + 2])
               THEN Num(10 * DigitsValue(SubSeq(w, 1, k)) + DigitValue(w[k + 2]))
          ELSE Num(10 * DigitsValue(SubSeq(w, 1, k)))

FoldCase(c) == IF c = "T" THEN "t" ELSE IF c = "U" THEN "u" ELSE c

\* { $regex: q, $options: "i" } for a q of letters: v contains q, case
\* ignored.
RegexI(v, q) ==
  /\ v.t = "string"
  /\ \E i \in 1..(Len(v.s) - Len(q.s) + 1) :
       \A j \in 1..Len(q.s) : FoldCase(v.s[i + j - 1]) = FoldCase(q.s[j])

\* The filter GET /products builds from the query, applied to a product.
Matches(p, query) ==
  /\ ~Falsy(query.category) => p.category = query.category
  /\ ~Falsy(query.q) => RegexI(p.title, query.q)
  /\ parseFloat(query.minPrice) # NaN => p.price.n >= parseFloat(query.minPrice).n
  /\ parseFloat(query.maxPrice) # NaN => p.price.n <= parseFloat(query.maxPrice).n

\* sortMap[sort] || sortMap["newest"]; a product created later has the
\* greater id.
InSortOrder(sort, i, j) ==
  CASE sort = Str(<<"p", "r", "i", "c", "e", "-", "a", "s", "c">>) ->
         products[i].price.n <= products[j].price.n
    [] sort = Str(<<"p", "r", "i", "c", "e", "-", "d", "e", "s", "c">>) ->
         products[i].price.n >= products[j].price.n
    [] OTHER -> i > j

\* The orders in which find(filter).sort(stage) may return the ids S.
Sorted(S, sort) ==
  {f \in [1..Cardinality(S) -> S] :
     /\ \A i, j \in DOMAIN f : f[i] = f[j] => i = j
     /\ \A i, j \in DOMAIN f : i < j => InSortOrder(sort, f[i], f[j])}

ListResponse(op, query, result) ==
  [op |-> op, actor |-> Anonymous, id |-> Malformed, body |-> query,
   status |-> 200, msg |-> "products", result |-> result]

\* GET /products
ProductList(cap, query) ==
  /\ BagCardinality(inflight) < cap
  /\ \E result \in Sorted({id \in DOMAIN products : Matches(products[id], query)},
                          IF query.sort = Undefined THEN Str(<<"n", "e", "w", "e", "s", "t">>)
                          ELSE query.sort) :
       Reply(ListResponse("ProductList", query, result))

\* GET /products without filters: every product, newest first.
ProductListV1(cap, query) ==
  /\ BagCardinality(inflight) < cap
  /\ \E result \in Sorted(DOMAIN products, Str(<<"n", "e", "w", "e", "s", "t">>)) :
       Reply(ListResponse("ProductListV1", query, result))

\* Products as POST /products stores them: every price, one of another
\* category and one of another title.
CatalogProducts ==
  {[title |-> Str(<<"t">>), price |-> Num(pr), category |-> Str(<<"c">>)] :
     pr \in {50, 100, 500, 600}}
  \cup {[title |-> Str(<<"t">>), price |-> Num(100), category |-> Str(<<"d">>)],
        [title |-> Str(<<"u">>), price |-> Num(500), category |-> Str(<<"c">>)]}

Query(category, q, minPrice, maxPrice, sort) ==
  [category |-> category, q |-> q, minPrice |-> minPrice, maxPrice |-> maxPrice,
   sort |-> sort]

\* No other filter, a category, or a search text; with every pair of price
\* bounds (a number, no number, a number followed by letters, none, empty).
Queries ==
  {Query(f[1], f[2], lo, hi, so) :
     f \in {<<Undefined, Undefined>>, <<Str(<<"c">>), Undefined>>,
            <<Undefined, Str(<<"T">>)>>},
     lo \in {Undefined, Str(<<"1", "0">>), Str(<<"a", "b", "c">>), Str(<<"1", "0", "a", "b", "c">>)},
     hi \in {Undefined, Str(<<"5", "0">>), Str(<<>>)},
     so \in {Undefined, Str(<<"p", "r", "i", "c", "e", "-", "a", "s", "c">>)}}

PlainQueries ==
  {Query(Undefined, Undefined, lo, Undefined, Undefined) :
     lo \in {Undefined, Str(<<"1", "0">>)}}

InitCatalog ==
  /\ \E n \in 0..MaxCatalog : products \in [1..n -> CatalogProducts]
  /\ nextProductId = Len(products) + 1
  /\ reviews = <<>>
  /\ nextReviewId = 1
  /\ inflight = EmptyBag
  /\ out = NoOut

NextCatalog ==
  \/ \E query \in Queries : ProductList(1, query)
  \/ \E query \in PlainQueries : ProductListV1(1, query)

SpecCatalog == InitCatalog /\ [][NextCatalog]_vars

\* The value of a bound that is a whole number in decimal digits.
IsWhole(v) == v.t = "string" /\ AllDigits(v.s)

WholeValue(v) == 10 * DigitsValue(v.s)

\* A bound that does not begin with a digit.
Unparsable(v) == v = Undefined \/ (v.t = "string" /\ (v.s = <<>> \/ ~IsDigit(v.s[1])))

Decided(v) == IsWhole(v) \/ Unparsable(v)

\* The product satisfies the filters of the query.
Wanted(p, query) ==
  /\ IsWhole(query.minPrice) => p.price.n >= WholeValue(query.minPrice)
  /\ IsWhole(query.maxPrice) => p.price.n <= WholeValue(query.maxPrice)
  /\ query.category # Undefined => p.category = query.category
  /\ query.q # Undefined =>
       \E i \in 1..Len(p.title.s) : p.title.s[i] \in {"t", "T"}

C14_Listed ==
  (out.op = "ProductList")
    => /\ out.status = 200
       /\ \A i \in DOMAIN out.result : out.result[i] \in DOMAIN products
       /\ \A i, j \in DOMAIN out.result : out.result[i] = out.result[j] => i = j
       /\ (Decided(out.body.minPrice) /\ Decided(out.body.maxPrice)) =>
            \A id \in DOMAIN products :
              (\E i \in DOMAIN out.result : out.result[i] = id)
                <=> Wanted(products[id], out.body)

Named(b) ==
  {f \in {"comment", "imageUrl"} : b[f] # Undefined}
    \cup (IF b.rating \in {Undefined, Null} THEN {} ELSE {"rating"})

C15_Merge ==
  \A r \in Suspended("Review.findByIdAndUpdate") :
    (/\ inflight' = inflight (-) SetToBag({r})
     /\ out'.status = 200
     /\ r.id.n \in DOMAIN reviews)
    => /\ DOMAIN reviews' = DOMAIN reviews
       /\ \A id \in DOMAIN reviews : id # r.id.n => reviews'[id] = reviews[id]
       /\ \A f \in {"rating", "comment", "imageUrl", "product", "author"} \ Named(r.body) :
            reviews'[r.id.n][f] = reviews[r.id.n][f]
       /\ r.body.rating.t = "number" => reviews'[r.id.n].rating = r.body.rating

C15_NoChanges ==
  (/\ out.op = "ReviewPatch"
   /\ isAuthenticated(out.actor)
   /\ out.id.valid
   /\ out.id.n \in DOMAIN reviews
   /\ reviews[out.id.n].author = out.actor
   /\ Named(out.body) = {})
  => out.status = 400 /\ out.msg = "No changes provided"

\* C15: the update of a review that answers 200 leaves every other review,
\* and every field of the review that the payload does not name (product
\* and author among them), as it was; a PATCH by the author whose payload
\* names no content field, a null rating not counting, answers 400 "No
\* changes provided" and changes nothing.
C15_PartialUpdate ==
  /\ [](C15_NoChanges)
  /\ [][C15_Merge /\ (out'.msg = "No changes provided" => UNCHANGED store)]_vars

\* A rating was patched into a review that keeps its comment.
C15_Witness ==
  /\ out.op = "ReviewPatch"
  /\ out.status = 200
  /\ out.body.rating = Num(30)
  /\ out.body.comment = Undefined
  /\ out.id.n \in DOMAIN reviews
  /\ reviews[out.id.n].rating = Num(30)
  /\ reviews[out.id.n].comment = Str(<<"h", "i">>)

\* C16: an authenticated POST of a review for a well-formed id answers 404
\* when the product does not exist and 403 when the actor owns the product,
\* whatever the body is, and answers 400 only for an existing product the
\* actor does not own.
C16_CheckOrder ==
  (out.op \in PostOps /\ isAuthenticated(out.actor) /\ out.id.valid)
    => LET exists == out.id.n \in DOMAIN products
           owns == /\ exists
                   /\ HasOwner(products[out.id.n])
                   /\ products[out.id.n].owner = out.actor
       IN /\ ~exists => out.status = 404
          /\ owns => out.status = 403
          /\ out.status = 400 => (exists /\ ~owns)

C17_Patched ==
  (out.op = "ReviewPatch" /\ out.status = 200)
    => /\ out.msg = "document"
       /\ out.id.n \in DOMAIN reviews

C17_Write ==
  \A r \in Suspended("Review.findByIdAndUpdate") \cup Suspended("Review.findByIdAndDelete") :
    (inflight' = inflight (-) SetToBag({r}) /\ r.id.n \notin DOMAIN reviews)
      => out'.status = 404

\* C17: a PATCH of a review that answers 200 returns the updated document
\* and the review then exists; a PATCH or DELETE whose store write finds the
\* review gone answers 404, so that of the DELETEs of one review at most one
\* answers 200.
C17_PatchDeleteRace == [](C17_Patched) /\ [][C17_Write]_vars

====
